---------------------------- MODULE Spec2Model ----------------------------
(***************************************************************************)
(* FRANZ (src/main.py): the response interpreter (parse_response,          *)
(* _parse_args), the command formatter (_format_command) and the           *)
(* orchestrator loop (main).                                               *)
(*                                                                         *)
(* Text is a sequence of one-character strings, so that the regular        *)
(* expressions of the source are modelled by what they match, character by *)
(* character.  A parameter list is a sequence of tagged values: [int |-> n]*)
(* for an integer parameter and [str |-> text] for a text parameter.       *)
(***************************************************************************)
EXTENDS Integers, Sequences, FiniteSets, TLC

VARIABLES
    pc,               \* position of main (or of the pure-function harness)
    iteration,        \* main: iteration
    story,            \* main: story
    last_action,      \* main: last_action
    resp,             \* the pieces the decision collaborator's answer is made of
    content,          \* main: content (the answer's text)
    commands,         \* main: commands
    story_candidate,  \* main: story_candidate
    idx,              \* main: number of commands of this batch already executed
    trace,            \* this iteration's host-level steps: execute_action calls and sleeps
    png_count,        \* number of <timestamp>.png files written to dump_dir
    story_writes,     \* number of times story.txt was written
    story_file,       \* text of story.txt
    func_name,        \* _parse_args: func_name (pure-function harness)
    raw_args,         \* _parse_args: raw_args (pure-function harness)
    params,           \* _parse_args: result (pure-function harness)
    screen,           \* the host: GetSystemMetrics(0), GetSystemMetrics(1)
    cursor,           \* the host: the cursor position
    buttons,          \* the host: the pointer buttons held down
    keys,             \* the host: the virtual keys held down
    events,           \* the primitive calls and sleeps of the current execute_action
    todo,             \* execute_action: the instructions still to run
    rejected          \* the number of primitive calls the host rejected

vars == <<pc, iteration, story, last_action, resp, content, commands,
          story_candidate, idx, trace, png_count, story_writes, story_file,
          func_name, raw_args, params,
          screen, cursor, buttons, keys, events, todo, rejected>>

\* the variables of the actuator and of the host
actuator == <<screen, cursor, buttons, keys, events, todo, rejected>>

---------------------------------------------------------------------------
(* Characters *)

LowerLetters ==
    {"a","b","c","d","e","f","g","h","i","j","k","l","m",
     "n","o","p","q","r","s","t","u","v","w","x","y","z"}

UpperLetters ==
    {"A","B","C","D","E","F","G","H","I","J","K","L","M",
     "N","O","P","Q","R","S","T","U","V","W","X","Y","Z"}

DigitChars == <<"0","1","2","3","4","5","6","7","8","9">>

Digits == {DigitChars[k] : k \in 1..10}

\* \w of the re module
WordChars == LowerLetters \cup UpperLetters \cup Digits \cup {"_"}

\* \s of the re module and the characters str.strip() removes
Whitespace == {" ", "\n", "\t", "\r"}

\* the characters str.splitlines() breaks at
LineBreaks == {"\n"}

UpperSeq == <<"A","B","C","D","E","F","G","H","I","J","K","L","M",
              "N","O","P","Q","R","S","T","U","V","W","X","Y","Z">>

LowerSeq == <<"a","b","c","d","e","f","g","h","i","j","k","l","m",
              "n","o","p","q","r","s","t","u","v","w","x","y","z">>

\* str.lower() of one character: what re.IGNORECASE compares
LowerChar(c) ==
    IF c \in UpperLetters
    THEN LowerSeq[CHOOSE k \in 1..26 : UpperSeq[k] = c]
    ELSE c

Lower(s) == [k \in 1..Len(s) |-> LowerChar(s[k])]

---------------------------------------------------------------------------
(* String primitives *)

\* s[i:] starts with pat (i is 1-based)
StartsWithAt(s, i, pat) ==
    /\ i + Len(pat) - 1 <= Len(s)
    /\ \A k \in 1..Len(pat) : s[i + k - 1] = pat[k]

\* s[i:] starts with the lower-case pat, whatever the case of s
StartsWithAtIgnoreCase(s, i, pat) ==
    /\ i + Len(pat) - 1 <= Len(s)
    /\ \A k \in 1..Len(pat) : LowerChar(s[i + k - 1]) = pat[k]

RECURSIVE SkipWhile(_, _, _)
\* the first index >= i whose character is not in set, Len(s)+1 if none
SkipWhile(s, i, set) ==
    IF i > Len(s) THEN Len(s) + 1
    ELSE IF s[i] \notin set THEN i
    ELSE SkipWhile(s, i + 1, set)

RECURSIVE FirstIn(_, _, _)
\* the first index >= i whose character is in set, Len(s)+1 if none
FirstIn(s, i, set) ==
    IF i > Len(s) THEN Len(s) + 1
    ELSE IF s[i] \in set THEN i
    ELSE FirstIn(s, i + 1, set)

RECURSIVE LastNotIn(_, _, _)
\* the last index <= i whose character is not in set, 0 if none
LastNotIn(s, i, set) ==
    IF i < 1 THEN 0
    ELSE IF s[i] \notin set THEN i
    ELSE LastNotIn(s, i - 1, set)

\* str.strip()
strip(s) == SubSeq(s, SkipWhile(s, 1, Whitespace), LastNotIn(s, Len(s), Whitespace))

RECURSIVE Join(_, _)
\* sep.join(parts)
Join(parts, sep) ==
    IF parts = <<>> THEN <<>>
    ELSE IF Len(parts) = 1 THEN parts[1]
    ELSE parts[1] \o sep \o Join(Tail(parts), sep)

RECURSIVE splitlines(_)
\* str.splitlines()
splitlines(s) ==
    IF s = <<>> THEN <<>>
    ELSE LET j == FirstIn(s, 1, LineBreaks)
         IN  <<SubSeq(s, 1, j - 1)>> \o splitlines(SubSeq(s, j + 1, Len(s)))

RECURSIVE DigitsToNat(_)
DigitsToNat(ds) ==
    IF ds = <<>> THEN 0
    ELSE 10 * DigitsToNat(SubSeq(ds, 1, Len(ds) - 1))
         + ((CHOOSE k \in 1..10 : DigitChars[k] = ds[Len(ds)]) - 1)

\* int(token) for a token of -?\d+
int(tok) ==
    IF tok[1] = "-" THEN 0 - DigitsToNat(Tail(tok)) ELSE DigitsToNat(tok)

RECURSIVE NatToDigits(_)
NatToDigits(n) ==
    IF n < 10 THEN <<DigitChars[n + 1]>>
    ELSE NatToDigits(n \div 10) \o <<DigitChars[(n % 10) + 1]>>

\* str(n) of an integer
str(n) == IF n < 0 THEN <<"-">> \o NatToDigits(0 - n) ELSE NatToDigits(n)


---------------------------------------------------------------------------
\* _FUNC_CALL_RE (src/main.py:100-102): a word boundary, one of the five
\* names (group 1), optional whitespace, an opening parenthesis, the longest
\* run of characters other than a closing parenthesis (group 2), a closing
\* parenthesis.  The pattern is compiled without flags: the names match in
\* lower case only.

\* the alternation of group 1, in the order the pattern tries it
FUNC_NAMES == <<"left_click", "right_click", "double_left_click", "drag", "type">>

NameChars(name) ==
    CASE name = "left_click" -> <<"l","e","f","t","_","c","l","i","c","k">>
      [] name = "right_click" -> <<"r","i","g","h","t","_","c","l","i","c","k">>
      [] name = "double_left_click" ->
            <<"d","o","u","b","l","e","_","l","e","f","t","_","c","l","i","c","k">>
      [] name = "drag" -> <<"d","r","a","g">>
      [] name = "type" -> <<"t","y","p","e">>

NoMatch == [ok |-> FALSE]

\* _FUNC_CALL_RE.match at index i of s: group(1), group(2) and the index
\* after the match
FuncCallAt(s, i) ==
    IF /\ (i = 1 \/ s[i - 1] \notin WordChars)
       /\ \E n \in 1..Len(FUNC_NAMES) : StartsWithAt(s, i, NameChars(FUNC_NAMES[n]))
    THEN LET n     == CHOOSE m \in 1..Len(FUNC_NAMES) :
                         /\ StartsWithAt(s, i, NameChars(FUNC_NAMES[m]))
                         /\ \A l \in 1..(m - 1) :
                               ~StartsWithAt(s, i, NameChars(FUNC_NAMES[l]))
             name  == FUNC_NAMES[n]
             open  == SkipWhile(s, i + Len(NameChars(name)), Whitespace)
             close == FirstIn(s, open + 1, {")"})
         IN  IF open <= Len(s) /\ s[open] = "(" /\ close <= Len(s)
             THEN [ok |-> TRUE, name |-> name,
                   args |-> SubSeq(s, open + 1, close - 1), end |-> close + 1]
             ELSE NoMatch
    ELSE NoMatch

RECURSIVE FuncCallFindIter(_, _)
\* _FUNC_CALL_RE.finditer(s), scanning from index i: the matches, left to
\* right, not overlapping
FuncCallFindIter(s, i) ==
    IF i > Len(s) THEN <<>>
    ELSE LET m == FuncCallAt(s, i)
         IN  IF m.ok THEN <<m>> \o FuncCallFindIter(s, m.end)
             ELSE FuncCallFindIter(s, i + 1)

\* _FUNC_CALL_RE.search(s) finds a match
FuncCallSearch(s) == \E i \in 1..Len(s) : FuncCallAt(s, i).ok

---------------------------------------------------------------------------
(* _parse_args  (src/main.py:151-168) *)

IntP(n) == [int |-> n]

StrP(t) == [str |-> t]

\* None, as a value that compares with a parameter list
None == <<[none |-> TRUE]>>

RECURSIVE FindNums(_, _)
\* re.findall(r"-?\d+", s), scanning from index i
FindNums(s, i) ==
    IF i > Len(s) THEN <<>>
    ELSE IF s[i] = "-" /\ i + 1 <= Len(s) /\ s[i + 1] \in Digits
    THEN LET j == SkipWhile(s, i + 1, Digits)
         IN  <<SubSeq(s, i, j - 1)>> \o FindNums(s, j)
    ELSE IF s[i] \in Digits
    THEN LET j == SkipWhile(s, i, Digits)
         IN  <<SubSeq(s, i, j - 1)>> \o FindNums(s, j)
    ELSE FindNums(s, i + 1)

Quotes == {"\"", "'"}

\* lines 155-158: the text of a type call
TypeText(raw) ==
    LET text == strip(raw)
    IN  IF text # <<>> /\ text[1] \in Quotes /\ text[Len(text)] = text[1]
        THEN SubSeq(text, 2, Len(text) - 1)
        ELSE text

ClickNames == {"left_click", "right_click", "double_left_click"}

\* _parse_args building a click from what numbers there are: a partial action
_parse_args_partial(name, raw) ==
    IF name = "type"
    THEN IF TypeText(raw) # <<>> THEN <<StrP(TypeText(raw))>> ELSE None
    ELSE LET nums == FindNums(raw, 1)
         IN  IF name \in ClickNames /\ Len(nums) >= 1
             THEN <<IntP(int(nums[1])), IntP(int(nums[Len(nums)]))>>
             ELSE IF name = "drag" /\ Len(nums) >= 2
             THEN <<IntP(int(nums[1])), IntP(int(nums[2])),
                    IntP(int(nums[Len(nums) - 1])), IntP(int(nums[Len(nums)]))>>
             ELSE None

\* _parse_args comparing the number of integers with == instead of >=
_parse_args_exact(name, raw) ==
    IF name = "type"
    THEN IF TypeText(raw) # <<>> THEN <<StrP(TypeText(raw))>> ELSE None
    ELSE LET nums == FindNums(raw, 1)
         IN  IF name \in ClickNames /\ Len(nums) = 2
             THEN <<IntP(int(nums[1])), IntP(int(nums[2]))>>
             ELSE IF name = "drag" /\ Len(nums) = 4
             THEN <<IntP(int(nums[1])), IntP(int(nums[2])),
                    IntP(int(nums[3])), IntP(int(nums[4]))>>
             ELSE None

_parse_args(name, raw) ==
    IF name = "type"
    THEN IF TypeText(raw) # <<>> THEN <<StrP(TypeText(raw))>> ELSE None
    ELSE LET nums == FindNums(raw, 1)
         IN  IF name \in ClickNames /\ Len(nums) >= 2
             THEN <<IntP(int(nums[1])), IntP(int(nums[2]))>>
             ELSE IF name = "drag" /\ Len(nums) >= 4
             THEN <<IntP(int(nums[1])), IntP(int(nums[2])),
                    IntP(int(nums[3])), IntP(int(nums[4]))>>
             ELSE None

---------------------------------------------------------------------------
(* parse_response  (src/main.py:105-148) *)

\* the backtick character, which a TLA+ string cannot hold
Backtick == "<backtick>"

Ticks == <<Backtick, Backtick, Backtick>>

Python == <<"p", "y", "t", "h", "o", "n">>

RECURSIVE FirstTicks(_, _)
\* the first index >= i where three backticks start, Len(s)+1 if none
FirstTicks(s, i) ==
    IF i > Len(s) THEN Len(s) + 1
    ELSE IF StartsWithAt(s, i, Ticks) THEN i
    ELSE FirstTicks(s, i + 1)

\* the fence pattern of line 112 matched at index i (re.DOTALL | re.IGNORECASE):
\* three backticks, optionally "python" in any case, whitespace, the shortest
\* text up to the next three backticks (group 1)
FenceAt(s, i) ==
    IF StartsWithAt(s, i, Ticks)
    THEN LET p == IF StartsWithAtIgnoreCase(s, i + 3, Python)
                  THEN i + 9 ELSE i + 3
             q == SkipWhile(s, p, Whitespace)
             j == FirstTicks(s, q)
         IN  IF j <= Len(s)
             THEN [ok |-> TRUE, start |-> i, end |-> j + 3,
                   group1 |-> SubSeq(s, q, j - 1)]
             ELSE NoMatch
    ELSE NoMatch

RECURSIVE FenceSearchFrom(_, _)
FenceSearchFrom(s, i) ==
    IF i > Len(s) THEN NoMatch
    ELSE IF FenceAt(s, i).ok THEN FenceAt(s, i)
    ELSE FenceSearchFrom(s, i + 1)

\* re.search of the fence pattern: the leftmost match
FenceSearch(s) == FenceSearchFrom(s, 1)

\* lines 116-122: the matches whose arguments parse, in match order
Command(name, ps) == [func_name |-> name, params |-> ps]

RECURSIVE CommandsOfReversed(_)
\* the commands inserted at the front of the list instead of appended
CommandsOfReversed(matches) ==
    IF matches = <<>> THEN <<>>
    ELSE LET m  == matches[1]
             ps == _parse_args(m.name, strip(m.args))
         IN  CommandsOfReversed(Tail(matches))
             \o (IF ps # None THEN <<Command(m.name, ps)>> ELSE <<>>)

RECURSIVE CommandsOf(_)
CommandsOf(matches) ==
    IF matches = <<>> THEN <<>>
    ELSE LET m  == matches[1]
             ps == _parse_args(m.name, strip(m.args))
         IN  (IF ps # None THEN <<Command(m.name, ps)>> ELSE <<>>)
             \o CommandsOf(Tail(matches))

\* the narrative of a fenced answer with its two sides on one line
FencedStory_one_line(s, fence) ==
    LET before == strip(SubSeq(s, 1, fence.start - 1))
        after  == strip(SubSeq(s, fence.end, Len(s)))
        parts  == (IF before # <<>> THEN <<before>> ELSE <<>>)
                  \o (IF after # <<>> THEN <<after>> ELSE <<>>)
    IN  strip(Join(parts, <<" ">>))

\* lines 126-135: the narrative around a fence
FencedStory(s, fence) ==
    LET before == strip(SubSeq(s, 1, fence.start - 1))
        after  == strip(SubSeq(s, fence.end, Len(s)))
        parts  == (IF before # <<>> THEN <<before>> ELSE <<>>)
                  \o (IF after # <<>> THEN <<after>> ELSE <<>>)
    IN  strip(Join(parts, <<"\n">>))

RECURSIVE StoryLines(_)
\* lines 138-142: the stripped non-empty lines that hold no function call
StoryLines(lines) ==
    IF lines = <<>> THEN <<>>
    ELSE LET stripped == strip(lines[1])
         IN  (IF stripped # <<>> /\ ~FuncCallSearch(stripped)
              THEN <<stripped>> ELSE <<>>)
             \o StoryLines(Tail(lines))

UnfencedStory(s) == strip(Join(StoryLines(splitlines(s)), <<" ">>))

Glyphs == {"#", "*", ">", "-"}

RECURSIVE SubGlyphs(_, _)
\* line 146: re.sub with re.MULTILINE, scanning from index i: at the start of
\* a line, a run of glyphs and the whitespace after it (line breaks
\* included) are removed
SubGlyphs(s, i) ==
    IF i > Len(s) THEN <<>>
    ELSE IF (i = 1 \/ s[i - 1] = "\n") /\ s[i] \in Glyphs
    THEN SubGlyphs(s, SkipWhile(s, SkipWhile(s, i, Glyphs), Whitespace))
    ELSE <<s[i]>> \o SubGlyphs(s, i + 1)

\* parse_response searching the whole answer for calls, fence or not
parse_response_whole(s) ==
    LET fence     == FenceSearch(s)
        raw_story == IF fence.ok THEN FencedStory(s, fence) ELSE UnfencedStory(s)
    IN  [commands |-> CommandsOf(FuncCallFindIter(s, 1)),
         story    |-> strip(SubGlyphs(raw_story, 1))]

parse_response(s) ==
    LET fence      == FenceSearch(s)
        code_block == IF fence.ok THEN fence.group1 ELSE s
        raw_story  == IF fence.ok THEN FencedStory(s, fence) ELSE UnfencedStory(s)
    IN  [commands |-> CommandsOf(FuncCallFindIter(code_block, 1)),
         story    |-> strip(SubGlyphs(raw_story, 1))]

---------------------------------------------------------------------------
(* _format_command  (src/main.py:355-359) *)

RECURSIVE JoinParams(_)
\* ",".join(str(p) for p in params)
JoinParams(ps) ==
    IF ps = <<>> THEN <<>>
    ELSE IF Len(ps) = 1 THEN str(ps[1].int)
    ELSE str(ps[1].int) \o <<",">> \o JoinParams(Tail(ps))

\* the text of a type command written without its quotes
_format_command_bare(name, ps) ==
    IF name = "type"
    THEN <<"t","y","p","e","(">> \o ps[1].str \o <<")">>
    ELSE NameChars(name) \o <<"(">> \o JoinParams(ps) \o <<")">>

_format_command(name, ps) ==
    IF name = "type"
    THEN <<"t","y","p","e","(","\"">> \o ps[1].str \o <<"\"",")">>
    ELSE NameChars(name) \o <<"(">> \o JoinParams(ps) \o <<")">>

---------------------------------------------------------------------------
(* The answers of the decision collaborator.  An answer is a sequence of   *)
(* pieces, one per line; its text is the pieces' texts joined by line      *)
(* breaks.  A piece is a function call as the prompt asks for it (kind     *)
(* "call", with the command it denotes), a call with too few numbers or    *)
(* with empty text (kind "bad"), a fence marker (kind "tick"), a fenced    *)
(* block holding one call (kind "block") or other text (kind "text").      *)

Pieces ==
    <<
\* 1: left_click(500,300)
       [kind |-> "call",
        text |-> <<"l","e","f","t","_","c","l","i","c","k","(","5","0","0",",","3","0","0",")">>,
        cmd  |-> [func_name |-> "left_click", params |-> <<[int |-> 500], [int |-> 300]>>]],
    \* 2: type("hi there")
       [kind |-> "call",
        text |-> <<"t","y","p","e","(","\"","h","i"," ","t","h","e","r","e","\"",")">>,
        cmd  |-> [func_name |-> "type", params |-> <<[str |-> <<"h","i"," ","t","h","e","r","e">>]>>]],
    \* 3: drag(10,20,30)
       [kind |-> "bad",
        text |-> <<"d","r","a","g","(","1","0",",","2","0",",","3","0",")">>],
    \* 4: drag(10,20,30,40,50)
       [kind |-> "call",
        text |-> <<"d","r","a","g","(","1","0",",","2","0",",","3","0",",","4","0",",","5","0",")">>,
        cmd  |-> [func_name |-> "drag", params |-> <<[int |-> 10], [int |-> 20], [int |-> 30], [int |-> 40]>>]],
    \* 5: type("")
       [kind |-> "bad",
        text |-> <<"t","y","p","e","(","\"","\"",")">>],
    \* 6: LEFT_CLICK(100,200)
       [kind |-> "text",
        text |-> <<"L","E","F","T","_","C","L","I","C","K","(","1","0","0",",","2","0","0",")">>],
    \* 7: Type("a")
       [kind |-> "text",
        text |-> <<"T","y","p","e","(","\"","a","\"",")">>],
    \* 8: '''python
       [kind |-> "tick",
        text |-> <<Backtick,Backtick,Backtick,"p","y","t","h","o","n">>],
    \* 9: '''
       [kind |-> "tick",
        text |-> <<Backtick,Backtick,Backtick>>],
    \* 10: click 500 300
       [kind |-> "text",
        text |-> <<"c","l","i","c","k"," ","5","0","0"," ","3","0","0">>],
    \* 11: type "hi there"
       [kind |-> "text",
        text |-> <<"t","y","p","e"," ","\"","h","i"," ","t","h","e","r","e","\"">>],
    \* 12: Open the menu.
       [kind |-> "text",
        text |-> <<"O","p","e","n"," ","t","h","e"," ","m","e","n","u",".">>],
    \* 13: # Then save it
       [kind |-> "text",
        text |-> <<"#"," ","T","h","e","n"," ","s","a","v","e"," ","i","t">>],
    \* 14: right_click(-5,2000)
       [kind |-> "call",
        text |-> <<"r","i","g","h","t","_","c","l","i","c","k","(","-","5",",","2","0","0","0",")">>,
        cmd  |-> [func_name |-> "right_click", params |-> <<[int |-> -5], [int |-> 2000]>>]],
    \* 15: double_left_click (7, 8)
       [kind |-> "call",
        text |-> <<"d","o","u","b","l","e","_","l","e","f","t","_","c","l","i","c","k"," ","(","7",","," ","8",")">>,
        cmd  |-> [func_name |-> "double_left_click", params |-> <<[int |-> 7], [int |-> 8]>>]],
    \* 16: a fence of the one call left_click(100,200), on three lines
       [kind |-> "block",
        text |-> <<Backtick,Backtick,Backtick,"p","y","t","h","o","n","\n","l","e","f","t","_","c","l","i","c","k","(","1","0","0",",","2","0","0",")","\n",Backtick,Backtick,Backtick>>,
        cmd  |-> [func_name |-> "left_click", params |-> <<[int |-> 100], [int |-> 200]>>]],
    \* 17: type("A@ b"), the second line being the text's: a capital, a
    \* line break, a character without a key, a space and a letter
       [kind |-> "call",
        text |-> <<"t","y","p","e","(","\"","A","\n","@"," ","b","\"",")">>,
        cmd  |-> [func_name |-> "type", params |-> <<[str |-> <<"A","\n","@"," ","b">>]>>]]
    >>

NPieces == Len(Pieces)

RECURSIVE TextsOf(_)
TextsOf(r) == IF r = <<>> THEN <<>> ELSE <<Pieces[r[1]].text>> \o TextsOf(Tail(r))

\* the text of the answer made of the pieces r
TextOf(r) == Join(TextsOf(r), <<"\n">>)

\* the bound on the number of pieces of an answer given to parse_response alone
MaxPieces == 3

\* the answers the decision collaborator gives in the loop
LoopResponses ==
    { <<>>,                  \* an empty answer
      <<12>>,                \* narrative only
      <<16>>,                \* a fenced call, no narrative
      <<12, 16, 13>>,        \* narrative, a fenced call, narrative
      <<8, 3, 2, 9, 1>>,     \* a fence of two calls, a call after it
      <<1, 2>>,              \* two calls
      <<3, 4, 12>>,          \* a malformed call, a call, narrative
      <<5>>,                 \* a malformed call only
      <<14, 15>>,            \* a call with coordinates outside 0..1000
      <<10, 11>>,            \* the keyword dialect
      <<6>> }                \* an upper-case name

---------------------------------------------------------------------------
(* Floating point: the double-precision arithmetic of the interpolation    *)
(* (lines 225-228, 338-341) and of the coordinate mapping (lines 279-280). *)
(* A natural number is a sequence of limbs of LimbBits bits, the lowest    *)
(* first, without high zero limbs; a float is a sign s, a mantissa m (a    *)
(* natural number of at most MantissaBits bits after rounding) and an      *)
(* exponent e, its value being s * m * 2^e.  Every operation rounds its    *)
(* exact result to the nearest double, ties to even, as Python's float     *)
(* does; the values of the program are far from overflow and underflow.    *)

\* the bits of the mantissa of a double
MantissaBits == 53

\* the bits of a limb
LimbBits == 13

RECURSIVE Pow2(_)
Pow2(k) == IF k = 0 THEN 1 ELSE 2 * Pow2(k - 1)

Base == Pow2(LimbBits)

RECURSIVE NatLimbs(_)
\* the limbs of the natural number n
NatLimbs(n) == IF n = 0 THEN <<>> ELSE <<n % Base>> \o NatLimbs(n \div Base)

RECURSIVE LimbsNat(_)
\* the natural number of the limbs a
LimbsNat(a) == IF a = <<>> THEN 0 ELSE a[1] + Base * LimbsNat(Tail(a))

Limb(a, i) == IF i \in 1..Len(a) THEN a[i] ELSE 0

RECURSIVE Trim(_)
\* a without its high zero limbs
Trim(a) ==
    IF a = <<>> THEN <<>>
    ELSE IF a[Len(a)] = 0 THEN Trim(SubSeq(a, 1, Len(a) - 1))
    ELSE a

RECURSIVE Carry(_, _)
\* the limbs of the number whose columns are cols, c carried in
Carry(cols, c) ==
    IF cols = <<>> THEN NatLimbs(c)
    ELSE <<(cols[1] + c) % Base>> \o Carry(Tail(cols), (cols[1] + c) \div Base)

\* a + b
AddL(a, b) ==
    LET n == IF Len(a) > Len(b) THEN Len(a) ELSE Len(b)
    IN  Trim(Carry([i \in 1..n |-> Limb(a, i) + Limb(b, i)], 0))

RECURSIVE SubFrom(_, _, _, _)
SubFrom(a, b, i, borrow) ==
    IF i > Len(a) THEN <<>>
    ELSE LET diff == a[i] - Limb(b, i) - borrow
         IN  <<diff % Base>> \o SubFrom(a, b, i + 1, IF diff < 0 THEN 1 ELSE 0)

\* a - b, for a >= b
SubL(a, b) == Trim(SubFrom(a, b, 1, 0))

\* a < b
LessL(a, b) ==
    \/ Len(a) < Len(b)
    \/ /\ Len(a) = Len(b)
       /\ \E i \in 1..Len(a) :
             /\ a[i] < b[i]
             /\ \A j \in (i + 1)..Len(a) : a[j] = b[j]

RECURSIVE Column(_, _, _, _)
\* the sum of the products a[j] * b[k + 1 - j] for j from i on
Column(a, b, k, i) ==
    IF i > Len(a) THEN 0
    ELSE a[i] * Limb(b, k + 1 - i) + Column(a, b, k, i + 1)

\* a * b, for a and b of at most five limbs
MulL(a, b) ==
    IF a = <<>> \/ b = <<>> THEN <<>>
    ELSE Trim(Carry([k \in 1..(Len(a) + Len(b) - 1) |-> Column(a, b, k, 1)], 0))

RECURSIVE Width(_)
\* the number of bits of n
Width(n) == IF n = 0 THEN 0 ELSE 1 + Width(n \div 2)

\* the number of bits of a
BitLen(a) ==
    IF a = <<>> THEN 0 ELSE LimbBits * (Len(a) - 1) + Width(a[Len(a)])

\* a * 2^k
ShiftLeft(a, k) ==
    IF a = <<>> THEN <<>>
    ELSE [j \in 1..(k \div LimbBits) |-> 0]
            \o Carry([i \in 1..Len(a) |-> a[i] * Pow2(k % LimbBits)], 0)

\* a \div 2^k
ShiftRight(a, k) ==
    LET q == k \div LimbBits
        r == k % LimbBits
        d == IF q >= Len(a) THEN <<>> ELSE SubSeq(a, q + 1, Len(a))
    IN  Trim([i \in 1..Len(d) |->
                 (d[i] \div Pow2(r)) + (Limb(d, i + 1) % Pow2(r)) * Pow2(LimbBits - r)])

\* a % 2^k = 0
LowBitsZero(a, k) ==
    /\ \A i \in 1..(k \div LimbBits) : Limb(a, i) = 0
    /\ Limb(a, k \div LimbBits + 1) % Pow2(k % LimbBits) = 0

\* bit j of a, bit 0 being the lowest
BitAt(a, j) == (Limb(a, j \div LimbBits + 1) \div Pow2(j % LimbBits)) % 2

Float(s, m, e) == [s |-> s, m |-> m, e |-> e]

FloatZero == Float(1, <<>>, 0)

\* the double nearest to s * m * 2^e, ties to even
Round(s, m, e) ==
    LET k == BitLen(m) - MantissaBits
    IN  IF k <= 0 THEN Float(s, m, e)
        ELSE LET q == ShiftRight(m, k)
                 up == /\ BitAt(m, k - 1) = 1
                       /\ (~LowBitsZero(m, k - 1) \/ q[1] % 2 = 1)
             IN  Float(s, IF up THEN AddL(q, <<1>>) ELSE q, e + k)

\* float(n)
FloatOfInt(n) ==
    Float(IF n < 0 THEN -1 ELSE 1, NatLimbs(IF n < 0 THEN -n ELSE n), 0)

FloatNeg(f) == Float(-f.s, f.m, f.e)

\* f * g
FloatMul(f, g) ==
    IF f.m = <<>> \/ g.m = <<>> THEN FloatZero
    ELSE Round(f.s * g.s, MulL(f.m, g.m), f.e + g.e)

\* f + g
FloatAdd(f, g) ==
    IF f.m = <<>> THEN g
    ELSE IF g.m = <<>> THEN f
    ELSE LET e == IF f.e < g.e THEN f.e ELSE g.e
             a == ShiftLeft(f.m, f.e - e)
             b == ShiftLeft(g.m, g.e - e)
         IN  IF f.s = g.s THEN Round(f.s, AddL(a, b), e)
             ELSE IF a = b THEN FloatZero
             ELSE IF LessL(a, b) THEN Round(g.s, SubL(b, a), e)
             ELSE Round(f.s, SubL(a, b), e)

\* the limbs of the fraction a division is carried to
FracLimbs == 7

RECURSIVE DivLimbs(_, _, _)
\* the first k limbs of the fraction r / b, for r < b
DivLimbs(r, b, k) ==
    IF k = 0 THEN <<>>
    ELSE DivLimbs((r * Base) % b, b, k - 1) \o <<(r * Base) \div b>>

RECURSIVE DivRem(_, _, _)
\* what is left of r / b after k limbs
DivRem(r, b, k) == IF k = 0 THEN r ELSE DivRem((r * Base) % b, b, k - 1)

\* a / b for integers a and 0 < b < 2^17: the quotient carried to FracLimbs
\* limbs of fraction, one more limb standing for what is left, rounded
TrueDiv(a, b) ==
    LET n == IF a < 0 THEN -a ELSE a
        rest == IF DivRem(n % b, b, FracLimbs) # 0 THEN 1 ELSE 0
        quot == <<rest>> \o DivLimbs(n % b, b, FracLimbs) \o NatLimbs(n \div b)
    IN  Round(IF a < 0 THEN -1 ELSE 1, Trim(quot), -(LimbBits * (FracLimbs + 1)))

\* int(f): the integer part, towards zero
IntOfFloat(f) ==
    IF f.e >= 0 THEN f.s * LimbsNat(ShiftLeft(f.m, f.e))
    ELSE f.s * LimbsNat(ShiftRight(f.m, -f.e))

\* the smoothstep without the factor 2: t * t * (3 - t)
Smoothstep_plain(i, steps) ==
    LET t == TrueDiv(i, steps)
    IN  FloatMul(FloatMul(t, t), FloatAdd(FloatOfInt(3), FloatNeg(t)))

\* lines 225-226: t = i / steps; t = t * t * (3 - 2 * t)
Smoothstep(i, steps) ==
    LET t == TrueDiv(i, steps)
    IN  FloatMul(FloatMul(t, t),
                 FloatAdd(FloatOfInt(3), FloatNeg(FloatMul(FloatOfInt(2), t))))

\* lines 227-228: int(start + (target - start) * t)
Interpolate(start, target, t) ==
    IntOfFloat(FloatAdd(FloatOfInt(start),
                        FloatMul(FloatOfInt(target - start), t)))

\* lines 279-280: int((n / 1000.0) * size)
MapCoord(n, size) ==
    IntOfFloat(FloatMul(TrueDiv(n, 1000), FloatOfInt(size)))

---------------------------------------------------------------------------
(* The actuator: execute_action, smooth_move_to, press_key and type_text   *)
(* (src/main.py:221-352).  A call of execute_action is a list of           *)
(* instructions, taken one at a time; every call of a host primitive       *)
(* (SetCursorPos, mouse_event, keybd_event) and every time.sleep is logged *)
(* in events, whatever the host makes of it.  Delays are in milliseconds.  *)

\* line 27
MOVEMENT_STEPS == 20

\* line 28: 0.01 s
STEP_DELAY == 10

\* line 29: 0.15 s
CLICK_SETTLE_DELAY == 150

\* line 30: 0.08 s
TYPING_CHAR_DELAY == 80

\* line 31: 0.15 s
TYPING_WORD_DELAY == 150

\* the flags of mouse_event (lines 287-302)
MOUSEEVENTF_LEFTDOWN == 2

MOUSEEVENTF_LEFTUP == 4

MOUSEEVENTF_RIGHTDOWN == 8

MOUSEEVENTF_RIGHTUP == 16

\* the flags of keybd_event (lines 239, 241)
KEYEVENTF_KEYDOWN == 0

KEYEVENTF_KEYUP == 2

\* the virtual keys named in type_text (lines 250, 253, 262)
VK_SPACE == 32

VK_RETURN == 13

VK_SHIFT == 16

\* instructions
MoveIns(x, y) == [op |-> "smooth_move_to", x |-> x, y |-> y]

DragIns(x, y) == [op |-> "drag_to", x |-> x, y |-> y]

LoopIns(of, start, target, i) ==
    [op |-> "loop", of |-> of, start |-> start, target |-> target, i |-> i]

\* a sleep that is over after one step's delay
SleepIns_short(ms) == [op |-> "sleep", ms |-> STEP_DELAY]

SleepIns(ms) == [op |-> "sleep", ms |-> ms]

\* a button event that is always a release of the left button
MouseIns_release(flags) == [op |-> "mouse_event", flags |-> MOUSEEVENTF_LEFTUP]

MouseIns(flags) == [op |-> "mouse_event", flags |-> flags]

KeybdIns(vk, flags) == [op |-> "keybd_event", vk |-> vk, flags |-> flags]

TypeIns(text) == [op |-> "type_text", text |-> text]

\* events
SetCursorPosEvent(x, y) == [op |-> "SetCursorPos", x |-> x, y |-> y]

MouseEvent(flags) == [op |-> "mouse_event", flags |-> flags]

KeybdEvent(vk, flags) == [op |-> "keybd_event", vk |-> vk, flags |-> flags]

SleepEvent(ms) == [op |-> "sleep", ms |-> ms]

\* lines 273-352: what execute_action does for a command on a screen of
\* w by h pixels
execute_action(name, ps, w, h) ==
    IF name = "left_click" /\ Len(ps) = 2
    THEN << MoveIns(MapCoord(ps[1].int, w), MapCoord(ps[2].int, h)),
            SleepIns(CLICK_SETTLE_DELAY),
            MouseIns(MOUSEEVENTF_LEFTDOWN),
            SleepIns(50),
            MouseIns(MOUSEEVENTF_LEFTUP) >>
    ELSE IF name = "right_click" /\ Len(ps) = 2
    THEN << MoveIns(MapCoord(ps[1].int, w), MapCoord(ps[2].int, h)),
            SleepIns(CLICK_SETTLE_DELAY),
            MouseIns(MOUSEEVENTF_RIGHTDOWN),
            SleepIns(50),
            MouseIns(MOUSEEVENTF_RIGHTUP) >>
    ELSE IF name = "double_left_click" /\ Len(ps) = 2
    THEN << MoveIns(MapCoord(ps[1].int, w), MapCoord(ps[2].int, h)),
            SleepIns(CLICK_SETTLE_DELAY),
            MouseIns(MOUSEEVENTF_LEFTDOWN),
            SleepIns(50),
            MouseIns(MOUSEEVENTF_LEFTUP),
            SleepIns(80),
            MouseIns(MOUSEEVENTF_LEFTDOWN),
            SleepIns(50),
            MouseIns(MOUSEEVENTF_LEFTUP) >>
    ELSE IF name = "drag" /\ Len(ps) = 4
    THEN << MoveIns(MapCoord(ps[1].int, w), MapCoord(ps[2].int, h)),
            SleepIns(100),
            MouseIns(MOUSEEVENTF_LEFTDOWN),
            SleepIns(100),
            DragIns(MapCoord(ps[3].int, w), MapCoord(ps[4].int, h)),
            SleepIns(100),
            MouseIns(MOUSEEVENTF_LEFTUP) >>
    ELSE IF name = "type" /\ Len(ps) = 1 /\ ps[1].str # <<>>
    THEN << TypeIns(ps[1].str) >>
    ELSE <<>>

\* lines 237-241
press_key(vk_code) ==
    << KeybdIns(vk_code, KEYEVENTF_KEYDOWN),
       SleepIns(20),
       KeybdIns(vk_code, KEYEVENTF_KEYUP) >>

\* the index of the character c in the sequence s
IndexIn(s, c) == CHOOSE k \in 1..Len(s) : s[k] = c

\* VkKeyScanW of line 256 as ctypes returns it: the host's layout has keys
\* for the letters and digits and "!" on Shift+1.  For a character without
\* a key the function returns the 16-bit value -1, which ctypes reads as a
\* C int: -1 if the upper half of the register holds the sign, 65535 if not.
VkKeyScanW(c) ==
    IF c \in LowerLetters THEN {64 + IndexIn(LowerSeq, c)}
    ELSE IF c \in UpperLetters THEN {256 + 64 + IndexIn(UpperSeq, c)}
    ELSE IF c \in Digits THEN {47 + IndexIn(DigitChars, c)}
    ELSE IF c = "!" THEN {256 + 49}
    ELSE {-1, 65535}

\* type_text without line 268, the release of Shift
type_char_shift_kept(char, vk) ==
    IF char = " "
    THEN press_key(VK_SPACE) \o <<SleepIns(TYPING_WORD_DELAY)>>
    ELSE IF char = "\n"
    THEN press_key(VK_RETURN) \o <<SleepIns(TYPING_WORD_DELAY)>>
    ELSE LET shift_needed == (vk \div 256) % 2 = 1
             vk_code == vk % 256
         IN  (IF vk # -1
              THEN (IF shift_needed
                    THEN <<KeybdIns(VK_SHIFT, KEYEVENTF_KEYDOWN), SleepIns(10)>>
                    ELSE <<>>)
                   \o press_key(vk_code)
              ELSE <<>>)
             \o <<SleepIns(TYPING_CHAR_DELAY)>>

\* lines 248-270: what type_text does for the character char, vk being the
\* result of VkKeyScanW
type_char(char, vk) ==
    IF char = " "
    THEN press_key(VK_SPACE) \o <<SleepIns(TYPING_WORD_DELAY)>>
    ELSE IF char = "\n"
    THEN press_key(VK_RETURN) \o <<SleepIns(TYPING_WORD_DELAY)>>
    ELSE LET shift_needed == (vk \div 256) % 2 = 1
             vk_code == vk % 256
         IN  (IF vk # -1
              THEN (IF shift_needed
                    THEN <<KeybdIns(VK_SHIFT, KEYEVENTF_KEYDOWN), SleepIns(10)>>
                    ELSE <<>>)
                   \o press_key(vk_code)
                   \o (IF shift_needed
                       THEN <<KeybdIns(VK_SHIFT, KEYEVENTF_KEYUP)>>
                       ELSE <<>>)
              ELSE <<>>)
             \o <<SleepIns(TYPING_CHAR_DELAY)>>

\* the button a flag of mouse_event presses or releases
ButtonOf(flags) ==
    IF flags \in {MOUSEEVENTF_LEFTDOWN, MOUSEEVENTF_LEFTUP} THEN "left" ELSE "right"

IsPress(flags) == flags \in {MOUSEEVENTF_LEFTDOWN, MOUSEEVENTF_RIGHTDOWN}

\* the host keeps the cursor on the screen
Clamp(v, size) == IF v < 0 THEN 0 ELSE IF v > size - 1 THEN size - 1 ELSE v

\* the screens and the cursor positions the host starts with
Screens == {<<1920, 1080>>, <<1366, 768>>}

Cursors == {<<0, 0>>, <<683, 500>>}

\* the bound on the number of primitive calls the host rejects
MaxRejected == 1

\* the host at rest
HostStart(s, c) ==
    /\ screen = s
    /\ cursor = c
    /\ buttons = {}
    /\ keys = {}
    /\ events = <<>>
    /\ todo = <<>>
    /\ rejected = 0

\* where execute_action leaves the cursor of a host that accepts every call,
\* c being where it was
CursorAfter(name, ps, w, h, c) ==
    IF name \in {"left_click", "right_click", "double_left_click"} /\ Len(ps) = 2
    THEN <<Clamp(MapCoord(ps[1].int, w), w), Clamp(MapCoord(ps[2].int, h), h)>>
    ELSE IF name = "drag" /\ Len(ps) = 4
    THEN <<Clamp(MapCoord(ps[3].int, w), w), Clamp(MapCoord(ps[4].int, h), h)>>
    ELSE c

---------------------------------------------------------------------------
(* main  (src/main.py:362-418) *)

INIT == <<"i","n","i","t">>

OBSERVE == <<"o","b","s","e","r","v","e">>

InitialStory == 
    <<"F","R","A","N","Z"," ","o","b","s","e","r","v","i","n","g"," ","d","e","s","k","t","o","p",".">>

\* the bound on iteration (the loop of the source has none)
MaxIter == 3

\* time.sleep(0.2) of line 408, in milliseconds
INTER_ACTION_PAUSE_MS == 200

\* time.sleep(0.5) of line 418, in milliseconds
ITERATION_PAUSE_MS == 500

ExecuteStep(cmd) == [op |-> "execute_action", cmd |-> cmd]

SleepStep(ms) == [op |-> "sleep", ms |-> ms]

\* lines 364-370
MainInit ==
    /\ pc = "capture"
    /\ iteration = 0
    /\ story = InitialStory
    /\ last_action = INIT
    /\ resp = <<>>
    /\ content = <<>>
    /\ commands = <<>>
    /\ story_candidate = <<>>
    /\ idx = 0
    /\ trace = <<>>
    /\ png_count = 0
    /\ story_writes = 0
    /\ story_file = <<>>
    /\ func_name = ""
    /\ raw_args = <<>>
    /\ params = None
    /\ HostStart(<<1920, 1080>>, <<0, 0>>)

Init == MainInit

\* lines 382-390: the next iteration starts with the capture
Capture ==
    /\ pc = "capture"
    /\ iteration < MaxIter
    /\ iteration' = iteration + 1
    /\ trace' = <<>>
    /\ pc' = "write_png"
    /\ UNCHANGED <<story, last_action, resp, content, commands, story_candidate,
                   idx, png_count, story_writes, story_file,
                   func_name, raw_args, params>>
    /\ UNCHANGED actuator

\* lines 392-393: the capture is written to dump_dir
WritePng ==
    /\ pc = "write_png"
    /\ png_count' = png_count + 1
    /\ pc' = "infer"
    /\ UNCHANGED <<iteration, story, last_action, resp, content, commands,
                   story_candidate, idx, trace, story_writes, story_file,
                   func_name, raw_args, params>>
    /\ UNCHANGED actuator

\* line 396: infer returns the answer's text
Infer ==
    /\ pc = "infer"
    /\ \E r \in LoopResponses :
          /\ resp' = r
          /\ content' = TextOf(r)
    /\ pc' = "interpret"
    /\ UNCHANGED <<iteration, story, last_action, commands, story_candidate,
                   idx, trace, png_count, story_writes, story_file,
                   func_name, raw_args, params>>
    /\ UNCHANGED actuator

\* a failure of infer that is caught and taken for an answer without
\* commands
InferFailObserved ==
    /\ pc = "infer"
    /\ last_action' = OBSERVE
    /\ pc' = "failed"
    /\ UNCHANGED <<iteration, story, resp, content, commands,
                   story_candidate, idx, trace, png_count, story_writes,
                   story_file, func_name, raw_args, params>>
    /\ UNCHANGED actuator

\* lines 95-96, 396: urlopen or the indexing of the answer raises; nothing in
\* main catches it
InferFail ==
    /\ pc = "infer"
    /\ pc' = "failed"
    /\ UNCHANGED <<iteration, story, last_action, resp, content, commands,
                   story_candidate, idx, trace, png_count, story_writes,
                   story_file, func_name, raw_args, params>>
    /\ UNCHANGED actuator

\* lines 399-402, 409
Interpret ==
    /\ pc = "interpret"
    /\ LET result == parse_response(content)
       IN  /\ commands' = result.commands
           /\ story_candidate' = result.story
    /\ idx' = 0
    /\ pc' = IF commands' # <<>> THEN "execute" ELSE "observe"
    /\ UNCHANGED <<iteration, story, last_action, resp, content, trace,
                   png_count, story_writes, story_file,
                   func_name, raw_args, params>>
    /\ UNCHANGED actuator

\* lines 403-406: the next command of the batch is executed
ExecuteAction ==
    /\ pc = "execute"
    /\ trace' = Append(trace, ExecuteStep(commands[idx + 1]))
    /\ pc' = "set_last"
    /\ UNCHANGED <<iteration, story, last_action, resp, content, commands,
                   story_candidate, idx, png_count, story_writes, story_file,
                   func_name, raw_args, params>>
    /\ LET cmd == commands[idx + 1]
       IN  cursor' = CursorAfter(cmd.func_name, cmd.params, screen[1], screen[2], cursor)
    /\ UNCHANGED <<screen, buttons, keys, events, todo, rejected>>

\* last_action set from the first command of the batch, not the current one
SetLastActionFirst ==
    /\ pc = "set_last"
    /\ last_action' = _format_command(commands[1].func_name, commands[1].params)
    /\ pc' = "pause"
    /\ UNCHANGED <<iteration, story, resp, content, commands, story_candidate,
                   idx, trace, png_count, story_writes, story_file,
                   func_name, raw_args, params>>
    /\ UNCHANGED actuator

\* lines 404, 407
SetLastAction ==
    /\ pc = "set_last"
    /\ last_action' = _format_command(commands[idx + 1].func_name,
                                      commands[idx + 1].params)
    /\ pc' = "pause"
    /\ UNCHANGED <<iteration, story, resp, content, commands, story_candidate,
                   idx, trace, png_count, story_writes, story_file,
                   func_name, raw_args, params>>
    /\ UNCHANGED actuator

\* line 408, and the loop of line 403 going on or ending
ActionPause ==
    /\ pc = "pause"
    /\ trace' = Append(trace, SleepStep(INTER_ACTION_PAUSE_MS))
    /\ idx' = idx + 1
    /\ pc' = IF idx + 1 < Len(commands) THEN "execute" ELSE "update_story"
    /\ UNCHANGED <<iteration, story, last_action, resp, content, commands,
                   story_candidate, png_count, story_writes, story_file,
                   func_name, raw_args, params>>
    /\ UNCHANGED actuator

\* lines 409-411
Observe ==
    /\ pc = "observe"
    /\ last_action' = OBSERVE
    /\ pc' = "update_story"
    /\ UNCHANGED <<iteration, story, resp, content, commands, story_candidate,
                   idx, trace, png_count, story_writes, story_file,
                   func_name, raw_args, params>>
    /\ UNCHANGED actuator

\* the story replaced by the candidate without the test of line 413
UpdateStoryAlways ==
    /\ pc = "update_story"
    /\ story' = story_candidate
    /\ story_file' = story_candidate
    /\ story_writes' = story_writes + 1
    /\ pc' = "sleep"
    /\ UNCHANGED <<iteration, last_action, resp, content, commands,
                   story_candidate, idx, trace, png_count,
                   func_name, raw_args, params>>
    /\ UNCHANGED actuator

\* lines 413-416
UpdateStory ==
    /\ pc = "update_story"
    /\ IF story_candidate # <<>>
       THEN /\ story' = story_candidate
            /\ story_file' = story_candidate
            /\ story_writes' = story_writes + 1
       ELSE UNCHANGED <<story, story_file, story_writes>>
    /\ pc' = "sleep"
    /\ UNCHANGED <<iteration, last_action, resp, content, commands,
                   story_candidate, idx, trace, png_count,
                   func_name, raw_args, params>>
    /\ UNCHANGED actuator

\* the loop left after the pause
IterationPauseBreaks ==
    /\ pc = "sleep"
    /\ trace' = Append(trace, SleepStep(ITERATION_PAUSE_MS))
    /\ pc' = "done"
    /\ UNCHANGED <<iteration, story, last_action, resp, content, commands,
                   story_candidate, idx, png_count, story_writes, story_file,
                   func_name, raw_args, params>>
    /\ UNCHANGED actuator

\* line 418, and back to line 381
IterationPause ==
    /\ pc = "sleep"
    /\ trace' = Append(trace, SleepStep(ITERATION_PAUSE_MS))
    /\ pc' = "capture"
    /\ UNCHANGED <<iteration, story, last_action, resp, content, commands,
                   story_candidate, idx, png_count, story_writes, story_file,
                   func_name, raw_args, params>>
    /\ UNCHANGED actuator

Next ==
    \/ Capture
    \/ WritePng
    \/ Infer
    \/ InferFail
    \/ Interpret
    \/ ExecuteAction
    \/ SetLastAction
    \/ ActionPause
    \/ Observe
    \/ UpdateStory
    \/ IterationPause

Spec == Init /\ [][Next]_vars

---------------------------------------------------------------------------
(* The actions of one iteration with execute_action taken one instruction  *)
(* at a time, from the answer of the decision collaborator on.  The host   *)
(* may reject a primitive call (SetCursorPos returning 0, an event being   *)
(* blocked); the source looks at no result of these calls.                 *)

\* the answers given for the actuator
ActResponses == { <<1>>, <<4>>, <<14, 15>>, <<17>>, <<12>> }

\* the first iteration after line 396
ActInit ==
    /\ pc = "interpret"
    /\ iteration = 1
    /\ story = InitialStory
    /\ last_action = INIT
    /\ resp \in ActResponses
    /\ content = TextOf(resp)
    /\ commands = <<>>
    /\ story_candidate = <<>>
    /\ idx = 0
    /\ trace = <<>>
    /\ png_count = 1
    /\ story_writes = 0
    /\ story_file = <<>>
    /\ func_name = ""
    /\ raw_args = <<>>
    /\ params = None
    /\ \E s \in Screens, c \in Cursors : HostStart(s, c)

\* what the host may answer to a primitive call
HostAnswers == IF rejected < MaxRejected THEN {TRUE, FALSE} ELSE {TRUE}

\* line 406 and lines 273-276: execute_action is entered
ExecuteStart ==
    /\ pc = "execute"
    /\ LET cmd == commands[idx + 1]
       IN  /\ todo' = execute_action(cmd.func_name, cmd.params, screen[1], screen[2])
           /\ trace' = Append(trace, ExecuteStep(cmd))
    /\ events' = <<>>
    /\ pc' = "acting"
    /\ UNCHANGED <<iteration, story, last_action, resp, content, commands,
                   story_candidate, idx, png_count, story_writes, story_file,
                   func_name, raw_args, params,
                   screen, cursor, buttons, keys, rejected>>

\* lines 225-226: the values of t in the loops, which depend on i only
SmoothT == [i \in 0..MOVEMENT_STEPS |-> Smoothstep(i, MOVEMENT_STEPS)]

\* lines 221-223: smooth_move_to reads the cursor position
SmoothMoveStart ==
    /\ pc = "acting"
    /\ todo # <<>>
    /\ Head(todo).op = "smooth_move_to"
    /\ todo' = <<LoopIns("smooth_move_to", cursor,
                         <<Head(todo).x, Head(todo).y>>, 0)>> \o Tail(todo)
    /\ UNCHANGED <<pc, iteration, story, last_action, resp, content, commands,
                   story_candidate, idx, trace, png_count, story_writes,
                   story_file, func_name, raw_args, params,
                   screen, cursor, buttons, keys, events, rejected>>

\* lines 224-234: one turn of the loop of smooth_move_to
SmoothMoveStep ==
    /\ pc = "acting"
    /\ todo # <<>>
    /\ Head(todo).op = "loop"
    /\ Head(todo).of = "smooth_move_to"
    /\ LET ins == Head(todo)
           t == SmoothT[ins.i]
           x == Interpolate(ins.start[1], ins.target[1], t)
           y == Interpolate(ins.start[2], ins.target[2], t)
       IN  /\ \E ok \in HostAnswers :
                /\ cursor' = IF ok THEN <<Clamp(x, screen[1]), Clamp(y, screen[2])>>
                             ELSE cursor
                /\ rejected' = IF ok THEN rejected ELSE rejected + 1
           /\ events' = events \o <<SetCursorPosEvent(x, y), SleepEvent(STEP_DELAY)>>
           /\ todo' = IF ins.i = MOVEMENT_STEPS THEN Tail(todo)
                      ELSE <<LoopIns(ins.of, ins.start, ins.target, ins.i + 1)>>
                              \o Tail(todo)
    /\ UNCHANGED <<pc, iteration, story, last_action, resp, content, commands,
                   story_candidate, idx, trace, png_count, story_writes,
                   story_file, func_name, raw_args, params,
                   screen, buttons, keys>>

\* line 336: the drag reads the cursor position
DragMoveStart ==
    /\ pc = "acting"
    /\ todo # <<>>
    /\ Head(todo).op = "drag_to"
    /\ todo' = <<LoopIns("drag", cursor,
                         <<Head(todo).x, Head(todo).y>>, 0)>> \o Tail(todo)
    /\ UNCHANGED <<pc, iteration, story, last_action, resp, content, commands,
                   story_candidate, idx, trace, png_count, story_writes,
                   story_file, func_name, raw_args, params,
                   screen, cursor, buttons, keys, events, rejected>>

\* lines 337-345: one turn of the loop of the drag
DragMoveStep ==
    /\ pc = "acting"
    /\ todo # <<>>
    /\ Head(todo).op = "loop"
    /\ Head(todo).of = "drag"
    /\ LET ins == Head(todo)
           t == SmoothT[ins.i]
           x == Interpolate(ins.start[1], ins.target[1], t)
           y == Interpolate(ins.start[2], ins.target[2], t)
       IN  /\ \E ok \in HostAnswers :
                /\ cursor' = IF ok THEN <<Clamp(x, screen[1]), Clamp(y, screen[2])>>
                             ELSE cursor
                /\ rejected' = IF ok THEN rejected ELSE rejected + 1
           /\ events' = events \o <<SetCursorPosEvent(x, y), SleepEvent(STEP_DELAY)>>
           /\ todo' = IF ins.i = MOVEMENT_STEPS THEN Tail(todo)
                      ELSE <<LoopIns(ins.of, ins.start, ins.target, ins.i + 1)>>
                              \o Tail(todo)
    /\ UNCHANGED <<pc, iteration, story, last_action, resp, content, commands,
                   story_candidate, idx, trace, png_count, story_writes,
                   story_file, func_name, raw_args, params,
                   screen, buttons, keys>>

\* a time.sleep of execute_action, press_key or type_text
Sleep ==
    /\ pc = "acting"
    /\ todo # <<>>
    /\ Head(todo).op = "sleep"
    /\ events' = Append(events, SleepEvent(Head(todo).ms))
    /\ todo' = Tail(todo)
    /\ UNCHANGED <<pc, iteration, story, last_action, resp, content, commands,
                   story_candidate, idx, trace, png_count, story_writes,
                   story_file, func_name, raw_args, params,
                   screen, cursor, buttons, keys, rejected>>

\* a mouse_event call of execute_action
MouseEventCall ==
    /\ pc = "acting"
    /\ todo # <<>>
    /\ Head(todo).op = "mouse_event"
    /\ LET flags == Head(todo).flags
       IN  /\ events' = Append(events, MouseEvent(flags))
           /\ \E ok \in HostAnswers :
              /\ buttons' = IF ~ok THEN buttons
                            ELSE IF IsPress(flags) THEN buttons \cup {ButtonOf(flags)}
                            ELSE buttons \ {ButtonOf(flags)}
              /\ rejected' = IF ok THEN rejected ELSE rejected + 1
    /\ todo' = Tail(todo)
    /\ UNCHANGED <<pc, iteration, story, last_action, resp, content, commands,
                   story_candidate, idx, trace, png_count, story_writes,
                   story_file, func_name, raw_args, params,
                   screen, cursor, keys>>

\* a keybd_event call of press_key or type_text
KeybdEventCall ==
    /\ pc = "acting"
    /\ todo # <<>>
    /\ Head(todo).op = "keybd_event"
    /\ LET ins == Head(todo)
       IN  /\ events' = Append(events, KeybdEvent(ins.vk, ins.flags))
           /\ \E ok \in HostAnswers :
              /\ keys' = IF ~ok THEN keys
                         ELSE IF ins.flags = KEYEVENTF_KEYDOWN THEN keys \cup {ins.vk}
                         ELSE keys \ {ins.vk}
              /\ rejected' = IF ok THEN rejected ELSE rejected + 1
    /\ todo' = Tail(todo)
    /\ UNCHANGED <<pc, iteration, story, last_action, resp, content, commands,
                   story_candidate, idx, trace, png_count, story_writes,
                   story_file, func_name, raw_args, params,
                   screen, cursor, buttons>>

\* lines 248-270: type_text takes the next character
TypeChar ==
    /\ pc = "acting"
    /\ todo # <<>>
    /\ Head(todo).op = "type_text"
    /\ LET text == Head(todo).text
           rest == IF Len(text) = 1 THEN <<>> ELSE <<TypeIns(Tail(text))>>
       IN  \E vk \in (IF text[1] \in {" ", "\n"} THEN {0} ELSE VkKeyScanW(text[1])) :
              todo' = type_char(text[1], vk) \o rest \o Tail(todo)
    /\ UNCHANGED <<pc, iteration, story, last_action, resp, content, commands,
                   story_candidate, idx, trace, png_count, story_writes,
                   story_file, func_name, raw_args, params,
                   screen, cursor, buttons, keys, events, rejected>>

\* execute_action returns to line 407
ExecuteReturn ==
    /\ pc = "acting"
    /\ todo = <<>>
    /\ pc' = "set_last"
    /\ UNCHANGED <<iteration, story, last_action, resp, content, commands,
                   story_candidate, idx, trace, png_count, story_writes,
                   story_file, func_name, raw_args, params,
                   screen, cursor, buttons, keys, events, todo, rejected>>

ActNext ==
    \/ Interpret
    \/ ExecuteStart
    \/ SmoothMoveStart
    \/ SmoothMoveStep
    \/ DragMoveStart
    \/ DragMoveStep
    \/ Sleep
    \/ MouseEventCall
    \/ KeybdEventCall
    \/ TypeChar
    \/ ExecuteReturn
    \/ SetLastAction
    \/ ActionPause
    \/ Observe
    \/ UpdateStory
    \/ IterationPause

SpecAct == ActInit /\ [][ActNext]_vars

---------------------------------------------------------------------------
(* parse_response and _parse_args called on their own, on every input of a *)
(* bounded set.                                                            *)

\* the pieces of the answers given to parse_response alone
PurePieces == {1, 2, 3, 5, 6, 7, 8, 9, 10, 11, 12, 13, 15, 16}

RECURSIVE PieceSeqs(_)
\* the sequences of at most n pieces
PieceSeqs(n) ==
    IF n = 0 THEN {<<>>}
    ELSE LET shorter == PieceSeqs(n - 1)
         IN  shorter \cup {Append(r, p) : r \in shorter, p \in PurePieces}

\* the argument tokens of a call: an integer token (with its value) or
\* other text
ArgTokens ==
    << [text |-> <<"7">>, int |-> 7],
       [text |-> <<" ", "-", "5">>, int |-> -5],
       [text |-> <<"0", "3", "0">>, int |-> 30],
       [text |-> <<"x">>] >>

IsIntToken(t) == "int" \in DOMAIN ArgTokens[t]

\* the bound on the number of argument tokens of a call
MaxArgs == 5

RECURSIVE TokenSeqs(_)
TokenSeqs(n) ==
    IF n = 0 THEN {<<>>}
    ELSE LET shorter == TokenSeqs(n - 1)
         IN  shorter \cup {Append(r, t) : r \in shorter, t \in 1..Len(ArgTokens)}

RECURSIVE TokenTexts(_)
TokenTexts(r) ==
    IF r = <<>> THEN <<>> ELSE <<ArgTokens[r[1]].text>> \o TokenTexts(Tail(r))

\* the argument text made of the tokens r, as lines 119-120 pass it on
ArgTextOf(r) == strip(Join(TokenTexts(r), <<",">>))

\* the names _parse_args is called with: the five of the pattern, and two
\* it does not know
ArgNames ==
    {"left_click", "right_click", "double_left_click", "drag", "type",
     "click", "scroll"}

\* the characters of the texts given to _parse_args for a type call
TypeChars == {"\"", "'", "a", " "}

\* the bound on the length of these texts
MaxTypeLen == 4

RECURSIVE TypeArgs(_)
\* the texts of at most n characters
TypeArgs(n) ==
    IF n = 0 THEN {<<>>}
    ELSE LET shorter == TypeArgs(n - 1)
         IN  shorter \cup {Append(t, c) : t \in shorter, c \in TypeChars}

PureInit ==
    /\ iteration = 0
    /\ story = InitialStory
    /\ last_action = INIT
    /\ commands = <<>>
    /\ story_candidate = <<>>
    /\ idx = 0
    /\ trace = <<>>
    /\ png_count = 0
    /\ story_writes = 0
    /\ story_file = <<>>
    /\ params = None
    /\ HostStart(<<1920, 1080>>, <<0, 0>>)
    /\ \/ /\ pc = "call_parse_response"
          /\ resp \in PieceSeqs(MaxPieces)
          /\ content = TextOf(resp)
          /\ func_name = ""
          /\ raw_args = <<>>
       \/ /\ pc = "call_parse_args"
          /\ resp \in TokenSeqs(MaxArgs)
          /\ content = <<>>
          /\ func_name \in ArgNames
          /\ raw_args = ArgTextOf(resp)
       \/ /\ pc = "call_parse_args"
          /\ resp = <<>>
          /\ content = <<>>
          /\ func_name = "type"
          /\ raw_args \in TypeArgs(MaxTypeLen)

\* line 399, on its own
CallParseResponse ==
    /\ pc = "call_parse_response"
    /\ LET result == parse_response(content)
       IN  /\ commands' = result.commands
           /\ story_candidate' = result.story
    /\ pc' = "parsed"
    /\ UNCHANGED <<iteration, story, last_action, resp, content, idx, trace,
                   png_count, story_writes, story_file,
                   func_name, raw_args, params>>
    /\ UNCHANGED actuator

\* line 120, on its own
CallParseArgs ==
    /\ pc = "call_parse_args"
    /\ params' = _parse_args(func_name, raw_args)
    /\ pc' = "args_parsed"
    /\ UNCHANGED <<iteration, story, last_action, resp, content, commands,
                   story_candidate, idx, trace, png_count, story_writes,
                   story_file, func_name, raw_args>>
    /\ UNCHANGED actuator

\* lines 174-185: the command draw_annotations reads from last_action, no
\* command for "init", "observe" and a text without a call
NoCommand == [func_name |-> "", params |-> None]

draw_annotations(last) ==
    LET found == FuncCallFindIter(last, 1)
    IN  IF last \in {INIT, OBSERVE} \/ found = <<>> THEN NoCommand
        ELSE [func_name |-> found[1].name,
              params    |-> _parse_args(found[1].name, strip(found[1].args))]

\* lines 404 and 407, on their own: the parameters parsed become last_action
CallFormatCommand ==
    /\ pc = "args_parsed"
    /\ params # None
    /\ last_action' = _format_command(func_name, params)
    /\ pc' = "formatted"
    /\ UNCHANGED <<iteration, story, resp, content, commands,
                   story_candidate, idx, trace, png_count, story_writes,
                   story_file, func_name, raw_args, params>>
    /\ UNCHANGED actuator

PureNext == CallParseResponse \/ CallParseArgs \/ CallFormatCommand

SpecPure == PureInit /\ [][PureNext]_vars

---------------------------------------------------------------------------
(* What an answer asks for, read off its pieces *)

Min(S) == CHOOSE x \in S : \A y \in S : x <= y

Tick == [kind |-> "tick"]

RECURSIVE ItemsOf(_)
\* the pieces r, a fenced block taken apart into its markers and its call
ItemsOf(r) ==
    IF r = <<>> THEN <<>>
    ELSE (IF Pieces[r[1]].kind = "block"
          THEN <<Tick, [kind |-> "call", cmd |-> Pieces[r[1]].cmd], Tick>>
          ELSE <<Pieces[r[1]]>>)
         \o ItemsOf(Tail(r))

TickPositions(items) == {i \in 1..Len(items) : items[i].kind = "tick"}

\* the answer holds a fenced block: an opening and a closing marker
HasFence(items) == Cardinality(TickPositions(items)) >= 2

FirstTick(items) == Min(TickPositions(items))

SecondTick(items) == Min(TickPositions(items) \ {FirstTick(items)})

\* the items inside the first fenced block, or all of them without a fence
Scope(items) ==
    IF HasFence(items)
    THEN [i \in 1..(SecondTick(items) - FirstTick(items) - 1) |->
             items[FirstTick(items) + i]]
    ELSE items

RECURSIVE CallsOf(_)
\* the commands of the well-formed calls among the items, in order
CallsOf(items) ==
    IF items = <<>> THEN <<>>
    ELSE (IF items[1].kind = "call" THEN <<items[1].cmd>> ELSE <<>>)
         \o CallsOf(Tail(items))

RECURSIVE RemoveBad(_)
\* the answer without its malformed calls
RemoveBad(r) ==
    IF r = <<>> THEN <<>>
    ELSE (IF Pieces[r[1]].kind = "bad" THEN <<>> ELSE <<r[1]>>)
         \o RemoveBad(Tail(r))

RECURSIVE IntValues(_)
\* the values of the integer tokens among the argument tokens r, in order
IntValues(r) ==
    IF r = <<>> THEN <<>>
    ELSE (IF IsIntToken(r[1]) THEN <<IntP(ArgTokens[r[1]].int)>> ELSE <<>>)
         \o IntValues(Tail(r))

Arity(name) ==
    IF name \in ClickNames THEN 2 ELSE IF name = "drag" THEN 4 ELSE 0

\* what the batch has done after k of its commands: each execution
\* followed by the inter-action pause
BatchTrace(k) ==
    [i \in 1..(2 * k) |->
        IF i % 2 = 1 THEN ExecuteStep(commands[(i + 1) \div 2])
        ELSE SleepStep(INTER_ACTION_PAUSE_MS)]

---------------------------------------------------------------------------
(* The claims *)

\* the steps that may follow a step of main
Succ(p) ==
    CASE p = "capture"      -> {"write_png"}
      [] p = "write_png"    -> {"infer"}
      [] p = "infer"        -> {"interpret", "failed"}
      [] p = "interpret"    -> {"execute", "observe"}
      [] p = "execute"      -> {"set_last"}
      [] p = "set_last"     -> {"pause"}
      [] p = "pause"        -> {"execute", "update_story"}
      [] p = "observe"      -> {"update_story"}
      [] p = "update_story" -> {"sleep"}
      [] p = "sleep"        -> {"capture"}
      [] OTHER              -> {}

\* the steps of the loop, each with a step to follow it
LoopSteps ==
    {"capture", "write_png", "infer", "interpret", "execute", "set_last",
     "pause", "observe", "update_story", "sleep"}

C2_LastAction ==
    /\ pc = "sleep" =>
          /\ last_action = OBSERVE <=> commands = <<>>
          /\ commands # <<>> =>
                last_action = _format_command(commands[Len(commands)].func_name,
                                              commands[Len(commands)].params)
    /\ pc = "pause" =>
          last_action = _format_command(commands[idx + 1].func_name,
                                        commands[idx + 1].params)
    /\ pc = "execute" /\ idx > 0 =>
          last_action = _format_command(commands[idx].func_name,
                                        commands[idx].params)
    /\ last_action = INIT <=>
          \/ iteration = 0
          \/ /\ iteration = 1
             /\ \/ pc \in {"write_png", "infer", "interpret", "observe", "failed"}
                \/ pc \in {"execute", "set_last"} /\ idx = 0

C2_Witness ==
    /\ pc = "sleep"
    /\ iteration = 2
    /\ Len(commands) = 2
    /\ last_action = _format_command(commands[2].func_name, commands[2].params)
    /\ last_action # _format_command(commands[1].func_name, commands[1].params)

\* C3: the story changes only in the story update of an iteration whose
\* narrative candidate is not empty, and then it becomes the candidate and
\* the narrative file is written with it; with an empty candidate the story
\* and the narrative file stay as they are, executed commands or not.
C3_StoryUpdate ==
    [][ /\ story' # story =>
              pc = "update_story" /\ story_candidate # <<>>
        /\ (story_writes' # story_writes \/ story_file' # story_file) =>
              pc = "update_story" /\ story_candidate # <<>>
        /\ pc = "update_story" /\ story_candidate # <<>> =>
              /\ story' = story_candidate
              /\ story_file' = story_candidate
              /\ story_writes' = story_writes + 1
        /\ pc = "update_story" /\ story_candidate = <<>> =>
              /\ story' = story
              /\ story_file' = story_file
              /\ story_writes' = story_writes ]_vars

C3_Witness ==
    /\ pc = "sleep"
    /\ iteration = 2
    /\ commands # <<>>
    /\ story_candidate = <<>>
    /\ story # InitialStory
    /\ story_file = story
    /\ story_writes = 1

\* C4: the commands parse_response returns are the calls of the answer in
\* the order of their text, and the batch executes each once, in that
\* order, with the inter-action pause after each execution.
C4_OrderAndPause ==
    /\ pc # "interpret" => commands = CallsOf(Scope(ItemsOf(resp)))
    /\ pc = "execute" => idx < Len(commands) /\ trace = BatchTrace(idx)
    /\ pc \in {"set_last", "pause"} =>
          /\ idx < Len(commands)
          /\ trace = Append(BatchTrace(idx), ExecuteStep(commands[idx + 1]))
    /\ pc \in {"update_story", "sleep"} => trace = BatchTrace(Len(commands))

C4_Witness ==
    /\ pc = "update_story"
    /\ Len(commands) = 2
    /\ commands[1] # commands[2]
    /\ Len(trace) = 4

\* C5: the answer of the lines  click 500 300  and  type "hi there"  yields
\* the commands Click(500,300) and Type("hi there"), in that order.
C5_KeywordDialect ==
    pc = "parsed" /\ resp = <<10, 11>> =>
        commands = <<Pieces[1].cmd, Pieces[2].cmd>>

\* C6: with a fenced block in the answer the commands are the well-formed
\* calls inside the block, and a call before or after the block is not
\* returned; without a fence they are the well-formed calls of the whole
\* answer.
C6_FenceScope ==
    pc = "parsed" =>
        LET items == ItemsOf(resp)
        IN  IF HasFence(items)
            THEN commands = CallsOf(SubSeq(items, FirstTick(items) + 1,
                                           SecondTick(items) - 1))
            ELSE commands = CallsOf(items)

C6_Witness ==
    /\ pc = "parsed"
    /\ HasFence(ItemsOf(resp))
    /\ \E i \in 1..Len(ItemsOf(resp)) :
          /\ ItemsOf(resp)[i].kind = "call"
          /\ i < FirstTick(ItemsOf(resp))
    /\ \E i \in 1..Len(ItemsOf(resp)) :
          /\ ItemsOf(resp)[i].kind = "call"
          /\ i > SecondTick(ItemsOf(resp))
    /\ Len(commands) = 1

\* C7: a malformed call is dropped and the parse goes on: the commands are
\* those of the answer with its malformed calls taken out, as many as there
\* are well-formed calls in the scope; an answer of malformed calls only
\* yields no command and an empty narrative.
C7_MalformedDropped ==
    pc = "parsed" =>
        /\ commands = parse_response(TextOf(RemoveBad(resp))).commands
        /\ Len(commands) = Len(CallsOf(Scope(ItemsOf(resp))))
        /\ (\A i \in 1..Len(resp) : Pieces[resp[i]].kind = "bad") =>
              commands = <<>> /\ story_candidate = <<>>

C7_Witness ==
    /\ pc = "parsed"
    /\ Len(resp) = 3
    /\ Pieces[resp[1]].kind = "bad"
    /\ Pieces[resp[2]].kind = "call"
    /\ Pieces[resp[3]].kind = "bad"
    /\ commands = <<Pieces[resp[2]].cmd>>

\* C8: a name in upper or mixed case is recognized as its lower-case
\* spelling is: the commands of an answer are those of the answer in lower
\* case (the arguments of the answers given hold no upper-case letter).
C8_CaseInsensitive ==
    pc = "parsed" => commands = parse_response(Lower(content)).commands

\* C9: for a click or drag name, _parse_args returns the first N integer
\* tokens of the arguments, in order, N being 2 for the clicks and 4 for
\* drag, when there are at least N, and None when there are fewer; for a
\* name it does not know it returns None.
C9_FirstN ==
    pc = "args_parsed" /\ func_name # "type" =>
        IF Arity(func_name) > 0 /\ Len(IntValues(resp)) >= Arity(func_name)
        THEN params = SubSeq(IntValues(resp), 1, Arity(func_name))
        ELSE params = None

C9_Witness ==
    /\ pc = "args_parsed"
    /\ func_name = "drag"
    /\ Len(resp) = 5
    /\ Len(IntValues(resp)) = 5
    /\ IntValues(resp)[4] # IntValues(resp)[5]
    /\ Len(params) = 4

\* C10: every command that is executed has all its coordinates in 0..1000.
C10_CoordsInRange ==
    \A i \in 1..Len(trace) :
        trace[i].op = "execute_action" /\ trace[i].cmd.func_name # "type" =>
            \A k \in 1..Len(trace[i].cmd.params) :
                trace[i].cmd.params[k].int \in 0..1000

\* C11: for a type call at most one layer of symmetric quotes is removed:
\* a text wrapped in a pair of the same quote character is returned without
\* the pair, its inner quotes intact; any other text, a lone quote
\* character included, is returned as it is; and no type action has an
\* empty text.
C11_QuoteLayer ==
    pc = "args_parsed" /\ func_name = "type" =>
        LET text == strip(raw_args)
            n == Len(text)
            wrapped == n >= 2 /\ text[1] \in Quotes /\ text[n] = text[1]
            decoded == IF wrapped THEN SubSeq(text, 2, n - 1) ELSE text
        IN  IF decoded = <<>> THEN params = None
            ELSE params = <<StrP(decoded)>>

---------------------------------------------------------------------------
(* The actuator's claims *)

\* the positions asked of SetCursorPos in the current execute_action
Moves == SelectSeq(events, LAMBDA e : e.op = "SetCursorPos")

\* the last n of these positions
LastMoves(n) == SubSeq(Moves, Len(Moves) - n + 1, Len(Moves))

\* the command being executed and its instructions
CurrentCmd == commands[idx + 1]

Prog == execute_action(CurrentCmd.func_name, CurrentCmd.params, screen[1], screen[2])

\* an interpolation loop is running: Head(todo).i positions are emitted
LoopRunning == pc = "acting" /\ todo # <<>> /\ Head(todo).op = "loop"

\* the number of instructions of a click or a drag that are finished
Finished == Len(Prog) - Len(todo)

\* a relocation of a click or a drag has just ended: the instruction
\* finished last is a move
JustMoved ==
    /\ pc = "acting"
    /\ CurrentCmd.func_name # "type"
    /\ ~LoopRunning
    /\ Finished >= 1
    /\ Prog[Finished].op \in {"smooth_move_to", "drag_to"}

Abs(v) == IF v < 0 THEN -v ELSE v

Between(v, a, b) == (a <= v /\ v <= b) \/ (b <= v /\ v <= a)

\* the point p lies on the straight segment from start to target
OnSegment(p, start, target) ==
    /\ (p.x - start[1]) * (target[2] - start[2])
          = (p.y - start[2]) * (target[1] - start[1])
    /\ Between(p.x, start[1], target[1])
    /\ Between(p.y, start[2], target[2])

\* the coordinate v is within one pixel of a + (b - a) * t, t being the
\* smoothstep of i / MOVEMENT_STEPS as a fraction
NearAt(v, a, b, i) ==
    LET num == i * i * (3 * MOVEMENT_STEPS - 2 * i)
        den == MOVEMENT_STEPS * MOVEMENT_STEPS * MOVEMENT_STEPS
    IN  Abs(den * (v - a) - (b - a) * num) <= den

\* the positions ps do not move away from the target on either axis
Monotonic(ps, target) ==
    \A j \in 1..(Len(ps) - 1) :
        /\ Between(ps[j + 1].x, ps[j].x, target[1])
        /\ Between(ps[j + 1].y, ps[j].y, target[2])

\* C12: the positions emitted by a relocation (smooth_move_to or the drag's
\* held move) start exactly at the start position, end exactly at the
\* target, do not move away from the target on either axis, and all lie on
\* the straight segment from start to target.
C12_OnSegment ==
    /\ LoopRunning =>
          LET ins == Head(todo)
              ps == LastMoves(ins.i)
          IN  /\ ins.i >= 1 => ps[1].x = ins.start[1] /\ ps[1].y = ins.start[2]
              /\ Monotonic(ps, ins.target)
              /\ \A j \in 1..Len(ps) : OnSegment(ps[j], ins.start, ins.target)
    /\ JustMoved =>
          LET ps == LastMoves(MOVEMENT_STEPS + 1)
              target == <<Prog[Finished].x, Prog[Finished].y>>
          IN  /\ ps[Len(ps)].x = target[1] /\ ps[Len(ps)].y = target[2]
              /\ Monotonic(ps, target)
              /\ \A j \in 1..Len(ps) : OnSegment(ps[j], <<ps[1].x, ps[1].y>>, target)

\* C12, amended: the positions emitted by a relocation start exactly at the
\* start position, end exactly at the target, do not move away from the
\* target on either axis, lie in the rectangle spanned by start and target,
\* and each coordinate is within one pixel of the segment's point at the
\* smoothstep parameter of its step.
C12_NearSegment ==
    /\ LoopRunning =>
          LET ins == Head(todo)
              ps == LastMoves(ins.i)
          IN  /\ ins.i >= 1 => ps[1].x = ins.start[1] /\ ps[1].y = ins.start[2]
              /\ Monotonic(ps, ins.target)
              /\ \A j \in 1..Len(ps) :
                    /\ Between(ps[j].x, ins.start[1], ins.target[1])
                    /\ Between(ps[j].y, ins.start[2], ins.target[2])
                    /\ NearAt(ps[j].x, ins.start[1], ins.target[1], j - 1)
                    /\ NearAt(ps[j].y, ins.start[2], ins.target[2], j - 1)
    /\ JustMoved =>
          LET ps == LastMoves(MOVEMENT_STEPS + 1)
              target == <<Prog[Finished].x, Prog[Finished].y>>
          IN  /\ ps[Len(ps)].x = target[1] /\ ps[Len(ps)].y = target[2]
              /\ Monotonic(ps, target)
              /\ \A j \in 1..Len(ps) :
                    /\ Between(ps[j].x, ps[1].x, target[1])
                    /\ Between(ps[j].y, ps[1].y, target[2])
                    /\ NearAt(ps[j].x, ps[1].x, target[1], j - 1)
                    /\ NearAt(ps[j].y, ps[1].y, target[2], j - 1)

\* the held move of a drag has ended, having moved on both axes through a
\* point off the segment
C12_Witness ==
    /\ JustMoved
    /\ Prog[Finished].op = "drag_to"
    /\ LET ps == LastMoves(MOVEMENT_STEPS + 1)
       IN  /\ ps[1].x # ps[Len(ps)].x
           /\ ps[1].y # ps[Len(ps)].y
           /\ \E j \in 1..Len(ps) :
                 ~OnSegment(ps[j], <<ps[1].x, ps[1].y>>,
                            <<ps[Len(ps)].x, ps[Len(ps)].y>>)

\* C15: when the inference call fails the failure propagates (main ends
\* there) and nothing is half done: no action was executed in the iteration,
\* and story, last_action and story.txt have the values they had when the
\* iteration started.
C15_FailurePropagates ==
    /\ [](pc = "failed" => trace = <<>> /\ todo = <<>>)
    /\ [][(pc \in {"capture", "write_png", "infer"}) =>
             UNCHANGED <<story, last_action, story_file, story_writes, cursor>>]_vars
    /\ [][pc # "failed"]_vars

\* the inference call has failed in the second iteration, after a first
\* iteration that executed an action and changed the story
C15_Witness ==
    /\ pc = "failed"
    /\ iteration = 2
    /\ story # InitialStory
    /\ last_action \notin {INIT, OBSERVE}

\* the parameters of the current command that the relocation finished last
\* is made from: the first two, or the last two for the drag's held move
MovedParams ==
    IF Prog[Finished].op = "drag_to"
    THEN <<CurrentCmd.params[3].int, CurrentCmd.params[4].int>>
    ELSE <<CurrentCmd.params[1].int, CurrentCmd.params[2].int>>

\* v is n * size / 1000 rounded to a nearest integer
IsRounded(v, n, size) == 2 * Abs(1000 * v - n * size) <= 1000

\* C13: for a normalized coordinate n in 0..1000 the physical coordinate
\* the actuator moves to is n * d / 1000 rounded to the nearest integer, x
\* with the screen width and y with the screen height.
C13_RoundedMapping ==
    JustMoved =>
        LET last == Moves[Len(Moves)]
        IN  /\ MovedParams[1] \in 0..1000 => IsRounded(last.x, MovedParams[1], screen[1])
            /\ MovedParams[2] \in 0..1000 => IsRounded(last.y, MovedParams[2], screen[2])

\* C14: when the host rejects a primitive call during an action, the rest of
\* the action is not run (no further event is emitted and the call is not
\* repeated): the rejected call leaves the action with nothing to do, and
\* the loop goes on from there.
C14_AbortOnReject ==
    [][rejected' > rejected => todo' = <<>> /\ pc' = "acting"]_vars

(***************************************************************************)
(* The narrative of a fenced answer                                        *)
(***************************************************************************)

IsMarker(p) == Pieces[p].kind \in {"tick", "block"}

\* the piece of the answer r that opens its fenced block
OpenAt(r) == Min({i \in 1..Len(r) : IsMarker(r[i])})

\* the piece that closes it: a block piece closes itself, another marker
\* is closed by the next marker
CloseAt(r) ==
    IF Pieces[r[OpenAt(r)]].kind = "block" THEN OpenAt(r)
    ELSE Min({i \in (OpenAt(r) + 1)..Len(r) : IsMarker(r[i])})

\* the text before the fenced block of r
TextBefore(r) == TextOf(SubSeq(r, 1, OpenAt(r) - 1))

\* the text after it: what follows the closing marker on its line, and the
\* lines after that
TextAfter(r) ==
    LET j    == CloseAt(r)
        line == Pieces[r[j]].text
        rest == IF j = OpenAt(r) THEN <<>> ELSE SubSeq(line, 4, Len(line))
    IN  Join(<<rest>> \o TextsOf(SubSeq(r, j + 1, Len(r))), <<"\n">>)

\* the line without its leading glyphs and the blanks after them
Unglyphed(line) ==
    SubSeq(line,
           SkipWhile(line, SkipWhile(line, 1, Glyphs), Whitespace),
           Len(line))

RECURSIVE UnglyphedAll(_)
UnglyphedAll(lines) ==
    IF lines = <<>> THEN <<>>
    ELSE <<Unglyphed(lines[1])>> \o UnglyphedAll(Tail(lines))

\* prose on both sides of the fence of left_click(100,200)
ProseAround(r) ==
    /\ Len(r) = 3
    /\ Pieces[r[1]].kind = "text"
    /\ Pieces[r[2]].kind = "block"
    /\ Pieces[r[3]].kind = "text"

Click100200 == [func_name |-> "left_click", params |-> <<IntP(100), IntP(200)>>]

\* C16 as stated: for every answer containing a fenced block the narrative
\* parse_response returns is the trimmed text before the fence, a newline,
\* and the trimmed text after the fence; for a fence holding
\* left_click(100,200) with prose before and after it, the result is that
\* one command and that narrative.
C16_FencedNarrative ==
    (pc = "parsed" /\ HasFence(ItemsOf(resp))) =>
        /\ story_candidate =
               strip(TextBefore(resp)) \o <<"\n">> \o strip(TextAfter(resp))
        /\ ProseAround(resp) => commands = <<Click100200>>

\* C16, amended: the narrative is the trimmed text before the fence, a
\* newline and the trimmed text after the fence, then trimmed as a whole
\* (so a side that is empty leaves no newline), with the glyphs # * > -
\* that lead a line and the blanks after them removed; for a fence holding
\* left_click(100,200) with prose before and after it, the result is that
\* one command and the two pieces of prose on two lines.
C16_TrimmedNarrative ==
    (pc = "parsed" /\ HasFence(ItemsOf(resp))) =>
        LET joined == strip(strip(TextBefore(resp)) \o <<"\n">>
                            \o strip(TextAfter(resp)))
        IN  /\ story_candidate =
                   strip(Join(UnglyphedAll(splitlines(joined)), <<"\n">>))
            /\ ProseAround(resp) =>
                   /\ commands = <<Click100200>>
                   /\ story_candidate =
                          Unglyphed(Pieces[resp[1]].text) \o <<"\n">>
                          \o Unglyphed(Pieces[resp[3]].text)

\* prose, the fence of left_click(100,200), prose led by a glyph: one
\* command, and a narrative of two lines
C16_Witness ==
    /\ pc = "parsed"
    /\ resp = <<12, 16, 13>>
    /\ commands = <<Click100200>>
    /\ story_candidate =
           Pieces[12].text \o <<"\n">> \o SubSeq(Pieces[13].text, 3, 14)

(***************************************************************************)
(* The order of the events of an action                                    *)
(***************************************************************************)

\* the button events emitted so far, and where they and the positions are
\* in the log
Mouse == SelectSeq(events, LAMBDA e : e.op = "mouse_event")

MouseAt == {i \in 1..Len(events) : events[i].op = "mouse_event"}

MoveAt == {i \in 1..Len(events) : events[i].op = "SetCursorPos"}

\* a command is being executed, or has just been
InAction == pc \in {"acting", "set_last"}

PressFlag(name) ==
    IF name = "right_click" THEN MOUSEEVENTF_RIGHTDOWN ELSE MOUSEEVENTF_LEFTDOWN

ReleaseFlag(name) ==
    IF name = "right_click" THEN MOUSEEVENTF_RIGHTUP ELSE MOUSEEVENTF_LEFTUP

\* one press/release pair with its short delay
ClickPair(name) ==
    << MouseEvent(PressFlag(name)), SleepEvent(50), MouseEvent(ReleaseFlag(name)) >>

\* the button events of a whole click, with their delays
ClickEvents(name) ==
    IF name = "double_left_click"
    THEN ClickPair(name) \o <<SleepEvent(80)>> \o ClickPair(name)
    ELSE ClickPair(name)

\* the point the first two parameters of the current command map to
MappedStart ==
    << MapCoord(CurrentCmd.params[1].int, screen[1]),
       MapCoord(CurrentCmd.params[2].int, screen[2]) >>

OnScreen(p) == <<Clamp(p[1], screen[1]), Clamp(p[2], screen[2])>>

\* C17: for left_click, right_click and double_left_click the button events
\* come only after the relocation has emitted all its positions, the last
\* of them the mapped target, and after the settle delay; no position is
\* emitted between the first press and the last release (and the pointer of
\* a host that rejected nothing rests on the target); presses and releases
\* alternate, a press first; a left_click ends with exactly one left pair,
\* a right_click with one right pair, a double_left_click with two left
\* pairs and the gap between them.
C17_ClickOrder ==
    (InAction /\ CurrentCmd.func_name \in ClickNames) =>
        LET name == CurrentCmd.func_name
        IN  /\ MouseAt # {} =>
                   LET first == Min(MouseAt)
                   IN  /\ Cardinality(MoveAt) = MOVEMENT_STEPS + 1
                       /\ \A i \in MoveAt : i < first
                       /\ Moves[Len(Moves)] =
                              SetCursorPosEvent(MappedStart[1], MappedStart[2])
                       /\ events[first - 1] = SleepEvent(CLICK_SETTLE_DELAY)
                       /\ events[first - 3].op = "SetCursorPos"
                       /\ rejected = 0 => cursor = OnScreen(MappedStart)
                       /\ SubSeq(events, first, Len(events))
                              = SubSeq(ClickEvents(name), 1, Len(events) - first + 1)
            /\ \A k \in 1..Len(Mouse) :
                   Mouse[k].flags = IF k % 2 = 1 THEN PressFlag(name)
                                    ELSE ReleaseFlag(name)
            /\ pc = "set_last" =>
                   /\ Len(Mouse) = IF name = "double_left_click" THEN 4 ELSE 2
                   /\ SubSeq(events, Min(MouseAt), Len(events)) = ClickEvents(name)

\* a double_left_click has returned with its second pair emitted, after a
\* right_click of the same batch
C17_Witness ==
    /\ pc = "set_last"
    /\ CurrentCmd.func_name = "double_left_click"
    /\ idx = 1
    /\ commands[1].func_name = "right_click"
    /\ Len(Mouse) = 4
    /\ cursor = MappedStart

\* the point the last two parameters of a drag map to
MappedEnd ==
    << MapCoord(CurrentCmd.params[3].int, screen[1]),
       MapCoord(CurrentCmd.params[4].int, screen[2]) >>

Max(S) == CHOOSE x \in S : \A y \in S : y <= x

\* the positions emitted before the event at index i of the log
MovesBefore(i) == {j \in MoveAt : j < i}

\* C18: a drag relocates with no button pressed, the last of the positions
\* of this relocation being the mapped start point; then, after a settle
\* delay, it emits one left press; then it emits the positions of the
\* interpolated move, all of them between the press and the release, the
\* last of them the mapped end point; then, after a settle delay, it emits
\* one left release, and no position after it.  It returns with exactly
\* one press and one release emitted.  On a host that rejected nothing the
\* button is held from the press to the release and the pointer rests on
\* the start point at the press and on the end point at the release.
C18_DragOrder ==
    (InAction /\ CurrentCmd.func_name = "drag") =>
        /\ Mouse = SubSeq(<<MouseEvent(MOUSEEVENTF_LEFTDOWN),
                            MouseEvent(MOUSEEVENTF_LEFTUP)>>, 1, Len(Mouse))
        /\ Len(Mouse) = 0 => Cardinality(MoveAt) <= MOVEMENT_STEPS + 1
        /\ Len(Mouse) >= 1 =>
               LET press == Min(MouseAt)
               IN  /\ Cardinality(MovesBefore(press)) = MOVEMENT_STEPS + 1
                   /\ Moves[MOVEMENT_STEPS + 1] =
                          SetCursorPosEvent(MappedStart[1], MappedStart[2])
                   /\ events[press - 1] = SleepEvent(100)
                   /\ events[press - 3].op = "SetCursorPos"
                   /\ Cardinality(MoveAt) <= 2 * (MOVEMENT_STEPS + 1)
                   /\ (rejected = 0 /\ Len(Moves) = MOVEMENT_STEPS + 1) =>
                          cursor = OnScreen(MappedStart)
        /\ Len(Mouse) = 2 =>
               LET release == Max(MouseAt)
               IN  /\ Cardinality(MovesBefore(release)) = 2 * (MOVEMENT_STEPS + 1)
                   /\ Cardinality(MoveAt) = 2 * (MOVEMENT_STEPS + 1)
                   /\ Moves[Len(Moves)] =
                          SetCursorPosEvent(MappedEnd[1], MappedEnd[2])
                   /\ events[release - 1] = SleepEvent(100)
                   /\ events[release - 3].op = "SetCursorPos"
                   /\ release = Len(events)
                   /\ rejected = 0 => cursor = OnScreen(MappedEnd)
        /\ rejected = 0 => buttons = IF Len(Mouse) = 1 THEN {"left"} ELSE {}
        /\ pc = "set_last" => Len(Mouse) = 2

\* a drag in the middle of its held move, the button down
C18_Witness ==
    /\ LoopRunning
    /\ CurrentCmd.func_name = "drag"
    /\ Head(todo).of = "drag"
    /\ Head(todo).i = 10
    /\ Len(Mouse) = 1
    /\ buttons = {"left"}
    /\ Len(Moves) = MOVEMENT_STEPS + 1 + 10

(***************************************************************************)
(* Nothing is held outside an action                                       *)
(***************************************************************************)

RECURSIVE HeldAfter(_, _)
\* the buttons and keys that are down after the events evs, held being
\* those down before them
HeldAfter(evs, held) ==
    IF evs = <<>> THEN held
    ELSE LET e == evs[1]
         IN  HeldAfter(Tail(evs),
                 IF e.op = "mouse_event"
                 THEN (IF IsPress(e.flags) THEN held \cup {ButtonOf(e.flags)}
                       ELSE held \ {ButtonOf(e.flags)})
                 ELSE IF e.op = "keybd_event"
                 THEN (IF e.flags = KEYEVENTF_KEYDOWN THEN held \cup {e.vk}
                       ELSE held \ {e.vk})
                 ELSE held)

\* C19: whenever no action is being executed, every press of a button or a
\* key that the last action emitted has been followed by its release, so
\* that no pointer button and no key, Shift included, is left down; on a
\* host that rejected none of the calls none is down in the host either.
C19_NothingHeld ==
    pc # "acting" =>
        /\ HeldAfter(events, {}) = {}
        /\ rejected = 0 => buttons = {} /\ keys = {}

\* type_text has returned after a character typed with Shift
C19_Witness ==
    /\ pc = "set_last"
    /\ CurrentCmd.func_name = "type"
    /\ \E i \in 1..Len(events) : events[i] = KeybdEvent(VK_SHIFT, KEYEVENTF_KEYDOWN)
    /\ rejected = 0
    /\ keys = {}

(***************************************************************************)
(* The round trip of last_action                                           *)
(***************************************************************************)

\* C20: the text _format_command makes of a command name and the
\* parameters _parse_args returned for it is read back by the annotator
\* (the first match of the call pattern, its arguments given to
\* _parse_args) as the same name and the same parameters.
C20_RoundTrip ==
    pc = "formatted" =>
        draw_annotations(last_action) =
            [func_name |-> func_name, params |-> params]

\* a text that begins with a quote of its own has been formatted
C20_Witness ==
    /\ pc = "formatted"
    /\ func_name = "type"
    /\ params = <<StrP(<<"\"", "a">>)>>
    /\ last_action = <<"t","y","p","e","(","\"","\"","a","\"",")">>

============================================================================
